---------------------------- MODULE Spec2Model ----------------------------
(***************************************************************************)
(* Model of the temporary-mailbox worker (src/unnamed/part_000): the four  *)
(* request handlers and the scheduled sweep over one `emails` table.       *)
(*                                                                         *)
(* Strings are sequences of one-character strings, so that toLowerCase,    *)
(* trim, slice and toString are computed and not assumed.  The JavaScript  *)
(* value `undefined` and the SQL value NULL are one-element sequences      *)
(* holding a token that is no character.                                   *)
(***************************************************************************)
EXTENDS Integers, Sequences, FiniteSets, TLC

VARIABLES
    env,      \* the worker's bindings: DB (bound or not) and EMAIL_DOMAIN
    db,       \* the rows of table `emails`, in insertion order
    nextId,   \* the id the store assigns to the next inserted row
    clock,    \* what Date.now() returns, in milliseconds
    resp,     \* the response of the last handled request, with its request
    prev,     \* a summary of the response before it
    requests, \* the requests the worker was handed, each with its request
              \* line and its position; empty where handlers are called directly
    client    \* the page's state: polling flags, timers, the displayed list
              \* and its fetchEmails calls

vars == <<env, db, nextId, clock, resp, prev, requests, client>>

-----------------------------------------------------------------------------
(* Bounds of the model *)

MaxIngest == 2      \* inserts per behaviour of Spec and SpecContent
MaxDays == 1        \* the clock reaches MaxDays retention horizons ...
MaxMs == 1          \* ... plus MaxMs milliseconds
MaxExtra == 2       \* inserts on top of the pre-filled mailbox in SpecLimit

-----------------------------------------------------------------------------
(* JavaScript values and string operations *)

Undefined == <<"undefined">>
Null == <<"NULL">>

\* A JSON value that is no string and is truthy (a number, an object).
NumberValue == <<"number">>

\* Mutant: the test is `v !== null && v !== undefined`, the empty string passes.
Truthy_OnlyNullish(v) == v # Undefined /\ v # Null

Truthy(v) == v # Undefined /\ v # Null /\ v # <<>>

IsString(v) == v # Undefined /\ v # Null /\ v # NumberValue

LowerChar(c) ==
    CASE c = "A" -> "a"
      [] c = "B" -> "b"
      [] OTHER -> c

ToLowerCase(s) == [i \in 1..Len(s) |-> LowerChar(s[i])]

IsSpace(c) == c = " "

RECURSIVE TrimStart(_)
TrimStart(s) ==
    IF s # <<>> /\ IsSpace(Head(s)) THEN TrimStart(Tail(s)) ELSE s

RECURSIVE TrimEnd(_)
TrimEnd(s) ==
    IF s # <<>> /\ IsSpace(s[Len(s)]) THEN TrimEnd(SubSeq(s, 1, Len(s) - 1)) ELSE s

Trim(s) == TrimEnd(TrimStart(s))

\* Mutant: the address is trimmed but its case is kept.
NormalizeAddress_KeepsCase(address) == Trim(address)

NormalizeAddress(address) == Trim(ToLowerCase(address))

Digit(n) == <<"0", "1", "2", "3", "4", "5", "6", "7", "8", "9">>[n + 1]

RECURSIVE IdToString(_)
IdToString(n) ==
    IF n < 10 THEN <<Digit(n)>> ELSE IdToString(n \div 10) \o <<Digit(n % 10)>>

Min(a, b) == IF a <= b THEN a ELSE b

Slice(s, from, to) == SubSeq(s, from + 1, Min(Len(s), to))

-----------------------------------------------------------------------------
(* Time *)

DayMs == 24 * 60 * 60 * 1000

ClockValues == {d * DayMs + ms : d \in 0..MaxDays, ms \in 0..MaxMs}

-----------------------------------------------------------------------------
(* The requests the model sends *)

\* parsed is FALSE for a request body that request.json() rejects.
NoMessage ==
    [parsed |-> TRUE,
     from |-> Undefined, to |-> Undefined, subject |-> Undefined,
     text |-> Undefined, content |-> Undefined, html |-> Undefined]

BaseMessage ==
    [NoMessage EXCEPT !.from = <<"f">>, !.to = <<"a">>, !.subject = <<"s">>,
                      !.text = <<"t">>]

ToValues == {<<"a">>, <<" ", "A", " ">>, <<"b">>}

ValidMessages == {[BaseMessage EXCEPT !.to = t] : t \in ToValues}

InvalidMessages ==
    {[BaseMessage EXCEPT !.from = v] : v \in {Undefined, <<>>}}
    \cup {[BaseMessage EXCEPT !.to = v] : v \in {Undefined, <<>>}}
    \cup {[BaseMessage EXCEPT !.subject = v] : v \in {Undefined, <<>>}}

Messages == ValidMessages \cup InvalidMessages

AddressValues == {Undefined, <<>>, <<"a">>, <<" ", "A", " ">>, <<"b">>}

StoreOutcomes == {"ok", "fail", "throw"}

TieOrders == {"asc", "desc"}

-----------------------------------------------------------------------------
(* Responses *)

\* storeOps counts the statements the handler ran on the store and outcome
\* is what the store answered to the last of them.
NoResponse ==
    [op |-> "none", status |-> 0, error |-> "", address |-> Undefined,
     msg |-> NoMessage, count |-> 0, body |-> <<>>, cache |-> "",
     rowId |-> 0, now |-> 0, generated |-> Undefined,
     storeOps |-> 0, outcome |-> "none", noCache |-> FALSE]

Response(op, status, error) ==
    [NoResponse EXCEPT !.op = op, !.status = status, !.error = error]

RequestAddress(r) == IF r.op = "ingest" THEN r.msg.to ELSE r.address

Summary(r) ==
    [op |-> r.op, status |-> r.status, address |-> RequestAddress(r),
     count |-> r.count]

-----------------------------------------------------------------------------
(* The store: table `emails` *)

InsertRow(id, emailData, now) ==
    [id |-> id,
     email_address |-> emailData.to,
     from_address |-> emailData.from,
     sender |-> Null,
     subject |-> emailData.subject,
     content |-> Null,
     text_content |-> emailData.text,
     html_content |-> emailData.html,
     received_at |-> now,
     raw_email |-> emailData.raw]

\* Mutant: the query has no WHERE clause.
WhereAddress_AllRows(rows, address) == rows

WhereAddress(rows, address) ==
    SelectSeq(rows, LAMBDA row : row.email_address = address)

Before(x, y, tie) ==
    \/ x.received_at > y.received_at
    \/ /\ x.received_at = y.received_at
       /\ IF tie = "asc" THEN x.id < y.id ELSE x.id > y.id

\* Mutant: ORDER BY received_at ASC.
OrderByReceivedAt_Asc(rows, tie) ==
    SortSeq(rows, LAMBDA x, y : Before(y, x, tie))

OrderByReceivedAtDesc(rows, tie) ==
    SortSeq(rows, LAMBDA x, y : Before(x, y, tie))

ListLimit == 100

\* Mutant: LIMIT is one too large.
Limit_OffByOne(rows) == SubSeq(rows, 1, Min(Len(rows), ListLimit + 1))

Limit(rows) == SubSeq(rows, 1, Min(Len(rows), ListLimit))

SelectEmails(rows, address, tie) ==
    Limit(OrderByReceivedAtDesc(WhereAddress(rows, address), tie))

\* Mutant: the DELETE has no WHERE clause.
DeleteWhereAddress_EveryRow(rows, address) == <<>>

\* Mutant: the DELETE removes one matching row (the oldest) and stops.
DeleteWhereAddress_OnlyFirst(rows, address) ==
    IF \E i \in 1..Len(rows) : rows[i].email_address = address
    THEN LET first == CHOOSE i \in 1..Len(rows) :
                        /\ rows[i].email_address = address
                        /\ \A j \in 1..(i - 1) : rows[j].email_address # address
         IN SubSeq(rows, 1, first - 1) \o SubSeq(rows, first + 1, Len(rows))
    ELSE rows

DeleteWhereAddress(rows, address) ==
    SelectSeq(rows, LAMBDA row : row.email_address # address)

CutoffTime(now) == now - (24 * 60 * 60 * 1000)

\* Mutant: received_at <= ? instead of received_at < ?.
DeleteWhereOlder_Inclusive(rows, cutoffTime) ==
    SelectSeq(rows, LAMBDA row : ~(row.received_at <= cutoffTime))

DeleteWhereOlder(rows, cutoffTime) ==
    SelectSeq(rows, LAMBDA row : ~(row.received_at < cutoffTime))

-----------------------------------------------------------------------------
(* handleNewEmail and saveEmail *)

\* Mutant: the subject is not validated.
MissingField_ForgetsSubject(email) ==
    ~Truthy(email.from) \/ ~Truthy(email.to)

MissingField(email) ==
    ~Truthy(email.from) \/ ~Truthy(email.to) \/ ~Truthy(email.subject)

\* Mutant: a missing text becomes the empty string, the content is ignored.
DeriveText_IgnoresContent(email) ==
    IF ~Truthy(email.text) THEN [email EXCEPT !.text = <<>>] ELSE email

DeriveText(email) ==
    IF ~Truthy(email.text)
    THEN [email EXCEPT !.text = IF Truthy(email.content) THEN email.content ELSE <<>>]
    ELSE email

\* Mutant: the recipient is stored as it came.
extractEmailData_KeepsTo(email) ==
    [to |-> email.to,
     from |-> email.from,
     subject |-> email.subject,
     text |-> email.text,
     html |-> IF Truthy(email.html) THEN email.html ELSE Null,
     raw |-> IF Truthy(email.content) THEN email.content ELSE Null]

extractEmailData(email) ==
    [to |-> NormalizeAddress(email.to),
     from |-> email.from,
     subject |-> email.subject,
     text |-> email.text,
     html |-> IF Truthy(email.html) THEN email.html ELSE Null,
     raw |-> IF Truthy(email.content) THEN email.content ELSE Null]

\* Mutant: the id is the number of rows plus one, not a counter of the table.
saveEmail_CountsRows(email, outcome) ==
    IF outcome = "ok"
    THEN /\ db' = Append(db, InsertRow(Len(db) + 1, extractEmailData(email), clock))
         /\ nextId' = nextId + 1
    ELSE UNCHANGED <<db, nextId>>

\* Mutant: the statement is prepared and bound but never run.
saveEmail_NeverRuns(email, outcome) == UNCHANGED <<db, nextId>>

saveEmail(email, outcome) ==
    IF outcome = "ok"
    THEN /\ db' = Append(db, InsertRow(nextId, extractEmailData(email), clock))
         /\ nextId' = nextId + 1
    ELSE UNCHANGED <<db, nextId>>

handleNewEmail(raw, cap) ==
    LET email == DeriveText(raw) IN
    /\ prev' = Summary(resp)
    /\ UNCHANGED <<env, clock>>
    /\ IF ~raw.parsed
       THEN /\ resp' = [Response("ingest", 500, "Exception") EXCEPT !.msg = raw]
            /\ UNCHANGED <<db, nextId>>
       ELSE IF MissingField(raw)
       THEN /\ resp' = [Response("ingest", 400, "MissingField") EXCEPT !.msg = raw]
            /\ UNCHANGED <<db, nextId>>
       ELSE IF ~IsString(raw.to)
       THEN /\ resp' = [Response("ingest", 500, "Exception") EXCEPT !.msg = raw]
            /\ UNCHANGED <<db, nextId>>
       ELSE IF ~env.DB
       THEN /\ resp' = [Response("ingest", 500, "StoreUnavailable") EXCEPT !.msg = raw]
            /\ UNCHANGED <<db, nextId>>
       ELSE \E outcome \in StoreOutcomes :
            /\ outcome = "ok" => nextId <= cap
            /\ saveEmail(email, outcome)
            /\ resp' =
                 IF outcome = "ok"
                 THEN [Response("ingest", 200, "") EXCEPT
                          !.msg = raw, !.rowId = nextId, !.now = clock,
                          !.storeOps = 1, !.outcome = outcome]
                 ELSE [Response("ingest", 500, "WriteFailed") EXCEPT
                          !.msg = raw, !.storeOps = 1, !.outcome = outcome]

-----------------------------------------------------------------------------
(* getEmails *)

NoContent == <<"no-content">>

PreviewLen == 100

\* Mutant: the preview is the whole text.
Preview_NoSlice(email) ==
    IF Truthy(email.text_content)
    THEN email.text_content
    ELSE IF Truthy(email.subject) THEN email.subject ELSE NoContent

Preview(email) ==
    IF Truthy(email.text_content)
    THEN Slice(email.text_content, 0, PreviewLen)
    ELSE IF Truthy(email.subject) THEN email.subject ELSE NoContent

FormatEmail(email, normalizedAddress) ==
    [id |-> IdToString(email.id),
     receivedAt |-> email.received_at,
     from |-> email.sender,
     to |-> normalizedAddress,
     subject |-> email.subject,
     text |-> IF Truthy(email.text_content) THEN email.text_content ELSE <<>>,
     html |-> IF Truthy(email.html_content) THEN email.html_content ELSE <<>>,
     content |-> email.content,
     preview |-> Preview(email)]

FormatEmails(rows, normalizedAddress) ==
    [i \in 1..Len(rows) |-> FormatEmail(rows[i], normalizedAddress)]

\* Mutant: the no_cache parameter is not read.
CacheControl_AlwaysCached(noCache) == "max-age=5"

CacheControl(noCache) == IF noCache THEN "no-store" ELSE "max-age=5"

\* Mutant: the rows that were read are deleted (read-once mailbox).
getEmails_ConsumesMessages(address, noCache) ==
    /\ prev' = Summary(resp)
    /\ UNCHANGED <<env, nextId, clock>>
    /\ IF ~Truthy(address)
       THEN /\ resp' = [Response("list", 400, "MissingAddress") EXCEPT !.address = address]
            /\ UNCHANGED db
       ELSE IF ~env.DB
       THEN /\ resp' = [Response("list", 500, "StoreUnavailable") EXCEPT
                           !.address = address, !.noCache = noCache]
            /\ UNCHANGED db
       ELSE \E outcome \in StoreOutcomes :
            IF outcome # "ok"
            THEN /\ resp' = [Response("list", 500, "QueryFailed") EXCEPT
                                !.address = address, !.noCache = noCache,
                                !.storeOps = 1, !.outcome = outcome]
                 /\ UNCHANGED db
            ELSE LET normalizedAddress == NormalizeAddress(address) IN
                 \E tie \in TieOrders :
                    /\ resp' = [Response("list", 200, "") EXCEPT
                                   !.address = address,
                                   !.body = FormatEmails(
                                       SelectEmails(db, normalizedAddress, tie),
                                       normalizedAddress),
                                   !.cache = CacheControl(noCache),
                                   !.noCache = noCache,
                                   !.storeOps = 1, !.outcome = outcome]
                    /\ db' = DeleteWhereAddress(db, normalizedAddress)

\* Mutant: an empty result is answered 404.
getEmails_NotFoundWhenEmpty(address, noCache) ==
    /\ prev' = Summary(resp)
    /\ UNCHANGED <<env, db, nextId, clock>>
    /\ IF ~Truthy(address)
       THEN resp' = [Response("list", 400, "MissingAddress") EXCEPT !.address = address]
       ELSE IF ~env.DB
       THEN resp' = [Response("list", 500, "StoreUnavailable") EXCEPT
                        !.address = address, !.noCache = noCache]
       ELSE \E outcome \in StoreOutcomes :
            IF outcome # "ok"
            THEN resp' = [Response("list", 500, "QueryFailed") EXCEPT
                             !.address = address, !.noCache = noCache,
                             !.storeOps = 1, !.outcome = outcome]
            ELSE LET normalizedAddress == NormalizeAddress(address) IN
                 \E tie \in TieOrders :
                    LET rows == SelectEmails(db, normalizedAddress, tie) IN
                    resp' = IF rows = <<>>
                            THEN [Response("list", 404, "NotFound") EXCEPT
                                     !.address = address,
                                     !.storeOps = 1, !.outcome = outcome]
                            ELSE [Response("list", 200, "") EXCEPT
                                     !.address = address,
                                     !.body = FormatEmails(rows, normalizedAddress),
                                     !.cache = CacheControl(noCache),
                                     !.noCache = noCache,
                                     !.storeOps = 1, !.outcome = outcome]

getEmails(address, noCache) ==
    /\ prev' = Summary(resp)
    /\ UNCHANGED <<env, db, nextId, clock>>
    /\ IF ~Truthy(address)
       THEN resp' = [Response("list", 400, "MissingAddress") EXCEPT !.address = address]
       ELSE IF ~env.DB
       THEN resp' = [Response("list", 500, "StoreUnavailable") EXCEPT
                        !.address = address, !.noCache = noCache]
       ELSE \E outcome \in StoreOutcomes :
            IF outcome # "ok"
            THEN resp' = [Response("list", 500, "QueryFailed") EXCEPT
                             !.address = address, !.noCache = noCache,
                             !.storeOps = 1, !.outcome = outcome]
            ELSE LET normalizedAddress == NormalizeAddress(address) IN
                 \E tie \in TieOrders :
                    resp' = [Response("list", 200, "") EXCEPT
                                !.address = address,
                                !.body = FormatEmails(
                                    SelectEmails(db, normalizedAddress, tie),
                                    normalizedAddress),
                                !.cache = CacheControl(noCache),
                                !.noCache = noCache,
                                !.storeOps = 1, !.outcome = outcome]

-----------------------------------------------------------------------------
(* clearEmails *)

\* Mutant: a failed DELETE is logged and answered as a success that removed
\* nothing.
clearEmails_SwallowsFailure(address) ==
    /\ prev' = Summary(resp)
    /\ UNCHANGED <<env, nextId, clock>>
    /\ IF ~Truthy(address)
       THEN /\ resp' = [Response("clear", 400, "MissingAddress") EXCEPT !.address = address]
            /\ UNCHANGED db
       ELSE IF ~env.DB
       THEN /\ resp' = [Response("clear", 500, "StoreUnavailable") EXCEPT !.address = address]
            /\ UNCHANGED db
       ELSE \E outcome \in StoreOutcomes :
            /\ db' = IF outcome = "ok"
                     THEN DeleteWhereAddress(db, NormalizeAddress(address))
                     ELSE db
            /\ resp' = [Response("clear", 200, "") EXCEPT
                           !.address = address,
                           !.count = Len(db) - Len(db'),
                           !.storeOps = 1, !.outcome = outcome]

clearEmails(address) ==
    /\ prev' = Summary(resp)
    /\ UNCHANGED <<env, nextId, clock>>
    /\ IF ~Truthy(address)
       THEN /\ resp' = [Response("clear", 400, "MissingAddress") EXCEPT !.address = address]
            /\ UNCHANGED db
       ELSE IF ~env.DB
       THEN /\ resp' = [Response("clear", 500, "StoreUnavailable") EXCEPT !.address = address]
            /\ UNCHANGED db
       ELSE \E outcome \in StoreOutcomes :
            IF outcome # "ok"
            THEN /\ resp' = [Response("clear", 500, "DeleteFailed") EXCEPT
                                !.address = address,
                                !.storeOps = 1, !.outcome = outcome]
                 /\ UNCHANGED db
            ELSE LET normalizedAddress == NormalizeAddress(address) IN
                 /\ db' = DeleteWhereAddress(db, normalizedAddress)
                 /\ resp' = [Response("clear", 200, "") EXCEPT
                                !.address = address,
                                !.count = Len(db) - Len(db'),
                                !.storeOps = 1, !.outcome = outcome]

-----------------------------------------------------------------------------
(* clearAllEmails, called by DELETE /emails/clear-all and by the cron trigger *)

\* Mutant: the binding is not checked, env.DB.prepare throws on undefined
\* and the outer catch answers.
clearAllEmails_NoBindingCheck ==
    /\ prev' = Summary(resp)
    /\ UNCHANGED <<env, nextId, clock>>
    /\ IF ~env.DB
       THEN /\ resp' = Response("sweep", 500, "Exception")
            /\ UNCHANGED db
       ELSE \E outcome \in StoreOutcomes :
            IF outcome # "ok"
            THEN /\ resp' = [Response("sweep", 500, "DeleteFailed") EXCEPT
                                !.now = clock,
                                !.storeOps = 1, !.outcome = outcome]
                 /\ UNCHANGED db
            ELSE /\ db' = DeleteWhereOlder(db, CutoffTime(clock))
                 /\ resp' = [Response("sweep", 200, "") EXCEPT
                                !.now = clock, !.count = Len(db) - Len(db'),
                                !.storeOps = 1, !.outcome = outcome]

clearAllEmails ==
    /\ prev' = Summary(resp)
    /\ UNCHANGED <<env, nextId, clock>>
    /\ IF ~env.DB
       THEN /\ resp' = Response("sweep", 500, "StoreUnavailable")
            /\ UNCHANGED db
       ELSE \E outcome \in StoreOutcomes :
            IF outcome # "ok"
            THEN /\ resp' = [Response("sweep", 500, "DeleteFailed") EXCEPT
                                !.now = clock,
                                !.storeOps = 1, !.outcome = outcome]
                 /\ UNCHANGED db
            ELSE /\ db' = DeleteWhereOlder(db, CutoffTime(clock))
                 /\ resp' = [Response("sweep", 200, "") EXCEPT
                                !.now = clock, !.count = Len(db) - Len(db'),
                                !.storeOps = 1, !.outcome = outcome]

-----------------------------------------------------------------------------
(* generateEmailAddress and the /generate route *)

Chars ==
    <<"a", "b", "c", "d", "e", "f", "g", "h", "i", "j", "k", "l", "m",
      "n", "o", "p", "q", "r", "s", "t", "u", "v", "w", "x", "y", "z",
      "0", "1", "2", "3", "4", "5", "6", "7", "8", "9">>

UsernameLen == 8

DefaultDomain == <<"7", "7", "7", ".", "x", "y", "z">>

\* Math.floor(Math.random() * chars.length): Math.random() is in [0, 1).
RandomIndexes == 0..(Len(Chars) - 1)

CharAt(s, i) == IF i \in 0..(Len(s) - 1) THEN <<s[i + 1]>> ELSE <<>>

\* The loop of lines 30-32; rnd[i] is the index drawn in iteration i.
RECURSIVE Username(_, _)
Username(rnd, i) ==
    IF i = 0 THEN <<>> ELSE Username(rnd, i - 1) \o CharAt(Chars, rnd[i])

\* Mutant: the domain is hard-coded, the binding is not read.
generateEmailAddress_HardCodedDomain(e, rnd) ==
    Username(rnd, UsernameLen) \o <<"@">> \o DefaultDomain

generateEmailAddress(e, rnd) ==
    LET username == Username(rnd, UsernameLen)
        domain == IF Truthy(e.EMAIL_DOMAIN) THEN e.EMAIL_DOMAIN ELSE DefaultDomain
    IN username \o <<"@">> \o domain

\* Mutant: the route answers 500 when the store is not bound.
handleGenerate_RequiresStore(rnd) ==
    /\ prev' = Summary(resp)
    /\ UNCHANGED <<env, db, nextId, clock>>
    /\ resp' = IF env.DB
               THEN [Response("generate", 200, "") EXCEPT
                        !.generated = generateEmailAddress(env, rnd)]
               ELSE Response("generate", 500, "StoreUnavailable")

handleGenerate(rnd) ==
    /\ prev' = Summary(resp)
    /\ UNCHANGED <<env, db, nextId, clock>>
    /\ resp' = [Response("generate", 200, "") EXCEPT
                   !.generated = generateEmailAddress(env, rnd)]

-----------------------------------------------------------------------------
(* handleRequest and scheduled: the routes of the worker *)

\* A request the worker was handed: its request line, the handler's
\* position (pc) and, once the handler has read them, its inputs.
NoRequest ==
    [method |-> "", path |-> "", op |-> "none", pc |-> "done",
     msg |-> NoMessage, address |-> Undefined, now |-> 0,
     status |-> 0, count |-> 0, rowId |-> 0, storeOps |-> 0,
     settles |-> TRUE]

RequestLine(method, path) ==
    [NoRequest EXCEPT !.method = method, !.path = path]

handleOptions ==
    /\ prev' = Summary(resp)
    /\ resp' = Response("options", 200, "")
    /\ UNCHANGED <<env, db, nextId, clock>>

NotFound ==
    /\ prev' = Summary(resp)
    /\ resp' = Response("route", 404, "NotFound")
    /\ UNCHANGED <<env, db, nextId, clock>>

\* Mutant: the clear routes are matched by path alone, for every method.
handleRequest_IgnoresMethod(method, path, m, a, nc, rnd) ==
    /\ requests' = <<RequestLine(method, path)>>
    /\ IF method = "OPTIONS" THEN handleOptions
       ELSE IF path = "/emails/clear" THEN clearEmails(a)
       ELSE IF path = "/emails/clear-all" THEN clearAllEmails
       ELSE IF path = "/generate" THEN handleGenerate(rnd)
       ELSE IF path = "/emails" THEN getEmails(a, nc)
       ELSE IF path = "/email" THEN handleNewEmail(m, MaxIngest)
       ELSE NotFound

handleRequest(method, path, m, a, nc, rnd) ==
    /\ requests' = <<RequestLine(method, path)>>
    /\ IF method = "OPTIONS" THEN handleOptions
       ELSE IF method = "DELETE" /\ path = "/emails/clear" THEN clearEmails(a)
       ELSE IF method = "DELETE" /\ path = "/emails/clear-all" THEN clearAllEmails
       ELSE IF path = "/generate" THEN handleGenerate(rnd)
       ELSE IF path = "/emails" THEN getEmails(a, nc)
       ELSE IF path = "/email" THEN handleNewEmail(m, MaxIngest)
       ELSE NotFound

\* The cron trigger: no request, clearAllEmails(null, env), the result logged.
scheduled ==
    /\ requests' = <<RequestLine("scheduled", "")>>
    /\ clearAllEmails

-----------------------------------------------------------------------------
(* Time passes between requests *)

Tick ==
    /\ \E t \in ClockValues : t > clock /\ clock' = t
    /\ UNCHANGED <<env, db, nextId, resp, prev>>

-----------------------------------------------------------------------------
(* Specification: requests handled one at a time, from an empty store *)

\* A handler called directly, without a request line.
Direct(A) == A /\ UNCHANGED <<requests, client>>

\* A timer handle that is null, and selectedEmail when it is null.
NoTimer == 0

NoEmail == [to |-> <<>>, id |-> ""]

\* The page before it is used: mounted, not polling, nothing displayed.
NoClient ==
    [mounted |-> TRUE, unmounted |-> FALSE, isChecking |-> FALSE,
     isCreatingEmail |-> FALSE,
     autoCheckTimer |-> NoTimer, autoCheckEndTimer |-> NoTimer,
     intervals |-> {}, timeouts |-> {},
     emailAddress |-> <<>>, emails |-> <<>>, selectedEmail |-> NoEmail,
     calls |-> <<>>, sent |-> 0, copies |-> 0, polled |-> FALSE,
     clear |-> [pc |-> "idle", backup |-> <<>>, outcome |-> "none"]]

Init ==
    /\ env \in [DB : BOOLEAN, EMAIL_DOMAIN : {Undefined}]
    /\ db = <<>>
    /\ nextId = 1
    /\ clock = 0
    /\ resp = NoResponse
    /\ prev = Summary(NoResponse)
    /\ requests = <<>>
    /\ client = NoClient

Ingest == \E m \in Messages : handleNewEmail(m, MaxIngest)

List == \E a \in AddressValues, nc \in BOOLEAN : getEmails(a, nc)

Clear == \E a \in AddressValues : clearEmails(a)

Sweep == clearAllEmails

Next ==
    \/ Direct(Ingest)
    \/ Direct(List)
    \/ Direct(Clear)
    \/ Direct(Sweep)
    \/ Direct(Tick)

Spec == Init /\ [][Next]_vars

-----------------------------------------------------------------------------
(* Specification of the message contents: the mailbox is fixed and the     *)
(* text, content and html of the inbound message vary.                     *)

TextValues == {Undefined, <<>>, <<"t">>}
ContentValues == {Undefined, <<"c">>}
HtmlValues == {Undefined, <<"h">>}

ContentMessages ==
    {[BaseMessage EXCEPT !.text = t, !.content = c, !.html = h] :
        t \in TextValues, c \in ContentValues, h \in HtmlValues}

IngestContent == \E m \in ContentMessages : handleNewEmail(m, MaxIngest)

NextContent ==
    \/ Direct(IngestContent)
    \/ Direct(List)
    \/ Direct(Clear)

SpecContent == Init /\ [][NextContent]_vars

-----------------------------------------------------------------------------
(* Specification of a full mailbox: the store already holds one message    *)
(* less than the list limit for mailbox "a", two per millisecond, and the   *)
(* requests add up to MaxExtra more.                                        *)

PrefillCount == ListLimit - 1

Prefill ==
    [i \in 1..PrefillCount |->
        InsertRow(i, extractEmailData(BaseMessage), (i + 1) \div 2)]

InitLimit ==
    /\ env = [DB |-> TRUE, EMAIL_DOMAIN |-> Undefined]
    /\ db = Prefill
    /\ nextId = PrefillCount + 1
    /\ clock = (PrefillCount + 1) \div 2
    /\ resp = NoResponse
    /\ prev = Summary(NoResponse)
    /\ requests = <<>>
    /\ client = NoClient

IngestLimit == \E m \in ValidMessages : handleNewEmail(m, PrefillCount + MaxExtra)

ListLimited == \E a \in {<<"a">>, <<"b">>} : getEmails(a, FALSE)

NextLimit ==
    \/ Direct(IngestLimit)
    \/ Direct(ListLimited)
    \/ Direct(Tick)

SpecLimit == InitLimit /\ [][NextLimit]_vars

-----------------------------------------------------------------------------
(* Specification of the address generator: every binding of the domain and  *)
(* of the store, and draws that put every character of the alphabet at      *)
(* every position of the local part.                                        *)

DomainValues == {Undefined, <<>>, <<"d", ".", "x">>}

RandomDraws ==
    {[i \in 1..UsernameLen |-> IF i = pos THEN k ELSE base] :
        pos \in 1..UsernameLen, k \in RandomIndexes, base \in {0, Len(Chars) - 1}}

InitGenerate ==
    /\ env \in [DB : BOOLEAN, EMAIL_DOMAIN : DomainValues]
    /\ db = <<>>
    /\ nextId = 1
    /\ clock = 0
    /\ resp = NoResponse
    /\ prev = Summary(NoResponse)
    /\ requests = <<>>
    /\ client = NoClient

Generate == \E rnd \in RandomDraws : handleGenerate(rnd)

NextGenerate ==
    \/ Direct(Generate)

SpecGenerate == InitGenerate /\ [][NextGenerate]_vars

-----------------------------------------------------------------------------
(* Specification of the faulty requests: next to the messages of Spec, a    *)
(* body that is no JSON and a message whose `to` is no string.              *)

MalformedBody == [NoMessage EXCEPT !.parsed = FALSE]

FaultyMessages == {MalformedBody, [BaseMessage EXCEPT !.to = NumberValue]}

IngestFaulty == \E m \in Messages \cup FaultyMessages : handleNewEmail(m, MaxIngest)

NextFaults ==
    \/ Direct(IngestFaulty)
    \/ Direct(List)
    \/ Direct(Clear)
    \/ Direct(Sweep)

SpecFaults == Init /\ [][NextFaults]_vars

-----------------------------------------------------------------------------
(* Specification of the preview: formatting is a function of the stored row *)
(* alone, so the table starts with one row drawn from texts of 0, 1, 100    *)
(* and 101 characters and from subjects that are set, empty or NULL (a row  *)
(* without subject is not one handleNewEmail writes), and the requests add  *)
(* messages and list the mailbox.                                           *)

LongText == [i \in 1..(PreviewLen + 1) |-> IF i <= PreviewLen THEN "x" ELSE "y"]

PreviewTexts == {<<>>, <<"t">>, SubSeq(LongText, 1, PreviewLen), LongText}

PreviewRows ==
    {InsertRow(1, [to |-> <<"a">>, from |-> <<"f">>, subject |-> sj,
                   text |-> tx, html |-> Null, raw |-> Null], 0) :
        sj \in {<<"s">>, <<>>, Null}, tx \in PreviewTexts}

PreviewMessages ==
    {[BaseMessage EXCEPT !.text = tx] : tx \in {Undefined, <<"t">>, LongText}}

InitPreview ==
    /\ env = [DB |-> TRUE, EMAIL_DOMAIN |-> Undefined]
    /\ db \in {<<row>> : row \in PreviewRows}
    /\ nextId = 2
    /\ clock = 0
    /\ resp = NoResponse
    /\ prev = Summary(NoResponse)
    /\ requests = <<>>
    /\ client = NoClient

IngestPreview == \E m \in PreviewMessages : handleNewEmail(m, 1 + MaxIngest)

ListPreview == getEmails(<<"a">>, FALSE)

NextPreview ==
    \/ Direct(IngestPreview)
    \/ Direct(ListPreview)

SpecPreview == InitPreview /\ [][NextPreview]_vars

-----------------------------------------------------------------------------
(* Specification of generate next to the store: a few generated addresses,  *)
(* messages ingested for them and lists of them, with every binding of the  *)
(* store and of the domain.                                                 *)

SampleDraws ==
    {[i \in 1..UsernameLen |-> k] : k \in {0, Len(Chars) - 1}}

SampleAddresses ==
    {generateEmailAddress([DB |-> TRUE, EMAIL_DOMAIN |-> d], rnd) :
        d \in DomainValues, rnd \in SampleDraws}

GenerateSample == \E rnd \in SampleDraws : handleGenerate(rnd)

IngestFrame ==
    \E to \in SampleAddresses :
        handleNewEmail([BaseMessage EXCEPT !.to = to], MaxIngest)

ListFrame == \E a \in SampleAddresses : getEmails(a, FALSE)

NextFrame ==
    \/ Direct(GenerateSample)
    \/ Direct(IngestFrame)
    \/ Direct(ListFrame)

SpecFrame == InitGenerate /\ [][NextFrame]_vars

-----------------------------------------------------------------------------
(* Specification of all five operations, one request at a time.             *)

NextAll ==
    \/ Direct(Ingest)
    \/ Direct(List)
    \/ Direct(Clear)
    \/ Direct(Sweep)
    \/ Direct(GenerateSample)
    \/ Direct(Tick)

SpecAll == Init /\ [][NextAll]_vars

-----------------------------------------------------------------------------
(* Specification of the routes: every method on every path, and the cron    *)
(* trigger.  A GET carries no body, so request.json() rejects for it.       *)

Methods == {"GET", "POST", "DELETE", "OPTIONS"}

Paths ==
    {"/generate", "/emails", "/email", "/emails/clear", "/emails/clear-all",
     "/other"}

Bodies(method) ==
    IF method = "GET" THEN {MalformedBody} ELSE {BaseMessage}

FirstDraw == [i \in 1..UsernameLen |-> 0]

Route ==
    \E method \in Methods, path \in Paths :
        \E m \in Bodies(method), a \in {Undefined, <<"a">>} :
            /\ handleRequest(method, path, m, a, FALSE, FirstDraw)
            /\ UNCHANGED client

Cron == scheduled /\ UNCHANGED client

NextRoutes == Route \/ Cron \/ Direct(Tick)

SpecRoutes == Init /\ [][NextRoutes]_vars

-----------------------------------------------------------------------------
(* Vocabulary of the properties.  It is written apart from the handlers'   *)
(* own helpers where a property has to say what the handler should compute. *)

Canonical(address) == Trim(ToLowerCase(address))

AbsentOrEmpty(v) == v = Undefined \/ v = Null \/ v = <<>>

Range(seq) == {seq[i] : i \in 1..Len(seq)}

RetentionMs == 86400000

\* A step taken by the handler of `op` (time does not pass inside a handler).
HandlerStep(op) == clock' = clock /\ resp'.op = op

Succeeded(r, op) == r.op = op /\ r.status = 200

SameMailbox(a, b) ==
    Truthy(a) /\ Truthy(b) /\ Canonical(a) = Canonical(b)

\* The row the last successful ingest stored, as a list item would show it.
ListedIds(r) == {r.body[i].id : i \in 1..Len(r.body)}

-----------------------------------------------------------------------------
(* C1: an ingest whose from, to and subject are non-empty, on a configured  *)
(* store whose write succeeds, answers 200 and appends exactly one record   *)
(* (the rest of the table is untouched; a failed write appends nothing),    *)
(* and a list of the same recipient address right after it contains the     *)
(* message.                                                                 *)

C1_IngestAppendsOne ==
    (HandlerStep("ingest") /\ env.DB
        /\ ~AbsentOrEmpty(resp'.msg.from) /\ ~AbsentOrEmpty(resp'.msg.to)
        /\ ~AbsentOrEmpty(resp'.msg.subject))
    => \/ /\ resp'.status = 200
          /\ Len(db') = Len(db) + 1
          /\ SubSeq(db', 1, Len(db)) = db
          /\ db'[Len(db')].id = resp'.rowId
          /\ db'[Len(db')].subject = resp'.msg.subject
          /\ db'[Len(db')].from_address = resp'.msg.from
          /\ \A i \in 1..Len(db) : db[i].id # resp'.rowId
       \/ /\ resp'.status = 500 /\ resp'.error = "WriteFailed"
          /\ db' = db

C1_ListedAfterIngest ==
    (Succeeded(resp, "list") /\ prev.op = "ingest" /\ prev.status = 200
        /\ resp.address = prev.address)
    => IdToString(nextId - 1) \in ListedIds(resp)

C1_IngestThenList == [][C1_IngestAppendsOne]_vars /\ []C1_ListedAfterIngest

C1_Witness ==
    /\ Succeeded(resp, "list") /\ prev.op = "ingest" /\ prev.status = 200
    /\ resp.address = prev.address
    /\ Len(resp.body) = 2
    /\ IdToString(nextId - 1) \in ListedIds(resp)

(* C2: a message ingested with to = T is returned by list(A) for every A    *)
(* with lowercase(trim(A)) = lowercase(trim(T)).                            *)

C2_NormalizationRoundTrip ==
    (Succeeded(resp, "list") /\ prev.op = "ingest" /\ prev.status = 200
        /\ SameMailbox(resp.address, prev.address))
    => \E i \in 1..Len(resp.body) :
          /\ resp.body[i].id = IdToString(nextId - 1)
          /\ resp.body[i].to = Canonical(prev.address)

C2_Witness ==
    /\ Succeeded(resp, "list") /\ prev.op = "ingest" /\ prev.status = 200
    /\ prev.address = <<" ", "A", " ">>
    /\ resp.address = <<"a">>
    /\ IdToString(nextId - 1) \in ListedIds(resp)

(* C3: an ingest whose from, to or subject is absent or empty answers 400   *)
(* MissingField and writes nothing: the table after the call is the table   *)
(* before it.                                                               *)

C3_ValidationStep ==
    (HandlerStep("ingest")
        /\ (AbsentOrEmpty(resp'.msg.from) \/ AbsentOrEmpty(resp'.msg.to)
            \/ AbsentOrEmpty(resp'.msg.subject)))
    => /\ resp'.status = 400
       /\ resp'.error = "MissingField"
       /\ db' = db
       /\ nextId' = nextId

C3_ValidationNoWrite == [][C3_ValidationStep]_vars

C3_Witness ==
    /\ resp.op = "ingest" /\ resp.status = 400
    /\ AbsentOrEmpty(resp.msg.subject)
    /\ env.DB /\ db # <<>>

(* C4: list(A) right after a successful clear(A) returns the empty          *)
(* sequence.                                                                *)

C4_ListAfterClearEmpty ==
    (Succeeded(resp, "list") /\ prev.op = "clear" /\ prev.status = 200
        /\ SameMailbox(resp.address, prev.address))
    => resp.body = <<>>

C4_Witness ==
    /\ Succeeded(resp, "list") /\ prev.op = "clear" /\ prev.status = 200
    /\ SameMailbox(resp.address, prev.address)
    /\ prev.count > 0
    /\ db # <<>>

(* C5: clear(A) twice in succession: the first removes the mailbox's        *)
(* messages (its count is positive exactly when the mailbox held any), the  *)
(* second, when the store answers, is a success with count 0.               *)

C5_FirstClearCounts ==
    (HandlerStep("clear") /\ resp'.status = 200)
    => (resp'.count > 0
          <=> \E i \in 1..Len(db) :
                 db[i].email_address = Canonical(resp'.address))

C5_SecondClearZero ==
    (resp.op = "clear" /\ prev.op = "clear" /\ prev.status = 200
        /\ SameMailbox(resp.address, prev.address)
        /\ resp.error # "DeleteFailed")
    => resp.status = 200 /\ resp.count = 0

C5_ClearIdempotent == [][C5_FirstClearCounts]_vars /\ []C5_SecondClearZero

C5_Witness ==
    /\ Succeeded(resp, "clear") /\ prev.op = "clear" /\ prev.status = 200
    /\ SameMailbox(resp.address, prev.address)
    /\ prev.count > 0
    /\ resp.count = 0

(* C6: a sweep at time now removes exactly the messages with                *)
(* receivedAt < now - 86,400,000 and no others; a message exactly 24 h old  *)
(* survives.                                                                *)

C6_SweepStep ==
    (HandlerStep("sweep") /\ resp'.status = 200)
    => /\ db' = SelectSeq(db, LAMBDA row : row.received_at >= clock - RetentionMs)
       /\ resp'.count =
            Cardinality({i \in 1..Len(db) : db[i].received_at < clock - RetentionMs})
       /\ resp'.now = clock

C6_SweepRemovesExpired == [][C6_SweepStep]_vars

C6_Witness ==
    /\ Succeeded(resp, "sweep")
    /\ resp.count = 1
    /\ \E i \in 1..Len(db) : db[i].received_at = resp.now - RetentionMs

(* C7: of two messages of one address, the one inserted later with a        *)
(* strictly later receivedAt is listed before the other; the result is in   *)
(* descending receivedAt order.                                             *)

C7_ListOrdering ==
    Succeeded(resp, "list")
    => /\ \A i, j \in 1..Len(resp.body) :
             i < j => resp.body[i].receivedAt >= resp.body[j].receivedAt
       /\ \A m1, m2 \in Range(db) :
             (/\ m1.email_address = Canonical(resp.address)
              /\ m2.email_address = m1.email_address
              /\ m2.id > m1.id
              /\ m2.received_at > m1.received_at)
             => \A j \in 1..Len(resp.body) :
                   resp.body[j].id = IdToString(m1.id)
                   => \E i \in 1..(j - 1) : resp.body[i].id = IdToString(m2.id)

C7_Witness ==
    /\ Succeeded(resp, "list")
    /\ Len(resp.body) = 2
    /\ resp.body[1].id = <<"2">>
    /\ resp.body[2].id = <<"1">>
    /\ resp.body[1].receivedAt > resp.body[2].receivedAt

(* C9: list(A) returns only messages stored under lowercase(trim(A)), and   *)
(* every returned item carries to = lowercase(trim(A)).                     *)

C9_ListOnlyOwnMailbox ==
    Succeeded(resp, "list")
    => \A i \in 1..Len(resp.body) :
          /\ resp.body[i].to = Canonical(resp.address)
          /\ \E row \in Range(db) :
                /\ IdToString(row.id) = resp.body[i].id
                /\ row.email_address = Canonical(resp.address)

C9_Witness ==
    /\ Succeeded(resp, "list")
    /\ Len(resp.body) = 1
    /\ \E row \in Range(db) : row.email_address # Canonical(resp.address)

(* C8: list(address) returns min(n, 100) messages, n being the number     *)
(* stored for the address, and when n > 100 they are the 100 with the       *)
(* greatest receivedAt: no message left out is more recent than a listed    *)
(* one.                                                                     *)

ClaimedLimit == 100

StoredFor(address) == {row \in Range(db) : row.email_address = Canonical(address)}

C8_ListLimit ==
    Succeeded(resp, "list")
    => LET stored == StoredFor(resp.address)
           n == Cardinality(stored)
           listed == ListedIds(resp)
       IN /\ Len(resp.body) = (IF n <= ClaimedLimit THEN n ELSE ClaimedLimit)
          /\ Cardinality(listed) = Len(resp.body)
          /\ listed \subseteq {IdToString(row.id) : row \in stored}
          /\ LET kept == {row \in stored : IdToString(row.id) \in listed}
             IN \A in \in kept, out \in stored \ kept :
                   in.received_at >= out.received_at

C8_Witness ==
    /\ Succeeded(resp, "list")
    /\ Cardinality(StoredFor(resp.address)) = ClaimedLimit + 1
    /\ Len(resp.body) = ClaimedLimit
    /\ IdToString(nextId - 1) \in ListedIds(resp)
    /\ <<"1">> \notin ListedIds(resp)

(* C10: an ingest with no text and no content stores textBody = "", with no *)
(* text and content = c stores textBody = c, and with a non-empty text t    *)
(* stores textBody = t.                                                     *)

C10_TextDerivation ==
    Succeeded(resp, "ingest")
    => /\ db # <<>>
       /\ db[Len(db)].id = resp.rowId
       /\ LET m == resp.msg
              stored == db[Len(db)].text_content
          IN /\ (AbsentOrEmpty(m.text) /\ AbsentOrEmpty(m.content)) => stored = <<>>
             /\ (AbsentOrEmpty(m.text) /\ ~AbsentOrEmpty(m.content)) => stored = m.content
             /\ ~AbsentOrEmpty(m.text) => stored = m.text

C10_Witness ==
    /\ Succeeded(resp, "ingest")
    /\ resp.msg.text = Undefined
    /\ resp.msg.content = <<"c">>
    /\ db[Len(db)].text_content = <<"c">>
    /\ \E i \in 1..Len(db) : db[i].text_content = <<>>

(* C11: with a domain configured (a non-empty string), generate returns    *)
(* exactly 8 characters of [a-z0-9], then "@", then the configured domain.  *)

Alphabet ==
    {"a", "b", "c", "d", "e", "f", "g", "h", "i", "j", "k", "l", "m",
     "n", "o", "p", "q", "r", "s", "t", "u", "v", "w", "x", "y", "z",
     "0", "1", "2", "3", "4", "5", "6", "7", "8", "9"}

LocalPartLen == 8

WellFormedAddress(a, domain) ==
    /\ Len(a) = LocalPartLen + 1 + Len(domain)
    /\ \A i \in 1..LocalPartLen : a[i] \in Alphabet
    /\ a[LocalPartLen + 1] = "@"
    /\ SubSeq(a, LocalPartLen + 2, Len(a)) = domain

C11_GenerateFormat ==
    (resp.op = "generate" /\ ~AbsentOrEmpty(env.EMAIL_DOMAIN))
    => /\ resp.status = 200
       /\ WellFormedAddress(resp.generated, env.EMAIL_DOMAIN)

C11_Witness ==
    /\ Succeeded(resp, "generate")
    /\ env.EMAIL_DOMAIN = <<"d", ".", "x">>
    /\ resp.generated = <<"z", "9", "9", "9", "9", "9", "9", "9", "@", "d", ".", "x">>

(* C12: when the store is not bound, a well-formed request to ingest, list, *)
(* clear or sweep is answered with the store-unavailable error, no          *)
(* statement is run on the store and the store is unchanged.  A request     *)
(* that fails its own validation is answered with the validation error      *)
(* first (C12_Original leaves this out).                                    *)

NonEmptyString(v) == ~AbsentOrEmpty(v) /\ v # NumberValue

WellFormedMessage(m) ==
    /\ m.parsed
    /\ NonEmptyString(m.from) /\ NonEmptyString(m.to) /\ NonEmptyString(m.subject)

StoreOps == {"ingest", "list", "clear", "sweep"}

StoreUnavailable(r) ==
    r.status = 500 /\ r.error = "StoreUnavailable" /\ r.storeOps = 0

C13_FaultClasses ==
    resp.op = "ingest"
    => /\ ~WellFormedMessage(resp.msg) => resp.status \in 400..499
       /\ (WellFormedMessage(resp.msg) /\ resp.status # 200)
             => resp.status \in 500..599

(* C14: a store operation that throws or reports success = false makes the  *)
(* handler answer an error, never the success result, and the handler runs  *)
(* exactly one statement on the store for the request (no retry).           *)

C14_NoSwallowNoRetry ==
    /\ resp.storeOps \in {0, 1}
    /\ resp.outcome \in {"fail", "throw"}
          => /\ resp.status = 500
             /\ resp.error \in {"WriteFailed", "QueryFailed", "DeleteFailed"}
             /\ resp.storeOps = 1
    /\ resp.status = 200 => resp.outcome = "ok" /\ resp.storeOps = 1

C14_Witness ==
    /\ resp.op = "clear" /\ resp.outcome = "throw" /\ resp.status = 500
    /\ prev.op = "ingest" /\ prev.status = 200
    /\ db # <<>>

(* C15: a list of an address that holds no stored message, on a store that  *)
(* answers, is a success with the empty sequence; a list answers an error   *)
(* only for a missing address, an unbound store or a failed query.          *)

C15_EmptyListIsSuccess ==
    resp.op = "list"
    => /\ (~AbsentOrEmpty(resp.address) /\ env.DB /\ resp.outcome = "ok"
             /\ StoredFor(resp.address) = {})
          => resp.status = 200 /\ resp.body = <<>>
       /\ resp.status # 200
          => \/ resp.error = "MissingAddress" /\ AbsentOrEmpty(resp.address)
             \/ resp.error = "StoreUnavailable" /\ ~env.DB
             \/ resp.error = "QueryFailed" /\ resp.outcome \in {"fail", "throw"}

C15_Witness ==
    /\ Succeeded(resp, "list")
    /\ resp.body = <<>>
    /\ StoredFor(resp.address) = {}
    /\ db # <<>>

(* C16: list and clear with an absent or empty address answer 400           *)
(* MissingAddress, run no statement on the store and leave it unchanged.    *)

C16_MissingAddressStep ==
    ((HandlerStep("list") \/ HandlerStep("clear")) /\ AbsentOrEmpty(resp'.address))
    => /\ resp'.status = 400
       /\ resp'.error = "MissingAddress"
       /\ resp'.storeOps = 0
       /\ db' = db

C16_MissingAddress == [][C16_MissingAddressStep]_vars

C16_Witness ==
    /\ resp.op = "clear" /\ resp.status = 400 /\ resp.address = <<>>
    /\ prev.op = "list" /\ prev.status = 400
    /\ db # <<>>

(* C17: the preview of every listed message is the first 100 characters of *)
(* its text when the text is non-empty, otherwise its subject when the      *)
(* subject is non-empty, otherwise the "no content" placeholder.            *)

ClaimedPreviewLen == 100

FirstChars(str, n) == [i \in 1..(IF Len(str) < n THEN Len(str) ELSE n) |-> str[i]]

ClaimedPreview(item) ==
    IF ~AbsentOrEmpty(item.text) THEN FirstChars(item.text, ClaimedPreviewLen)
    ELSE IF ~AbsentOrEmpty(item.subject) THEN item.subject
    ELSE NoContent

C17_PreviewDerivation ==
    Succeeded(resp, "list")
    => \A i \in 1..Len(resp.body) :
          /\ resp.body[i].preview = ClaimedPreview(resp.body[i])
          /\ \E row \in Range(db) :
                /\ IdToString(row.id) = resp.body[i].id
                /\ resp.body[i].subject = row.subject
                /\ resp.body[i].text =
                      (IF AbsentOrEmpty(row.text_content) THEN <<>> ELSE row.text_content)

C17_Witness ==
    /\ Succeeded(resp, "list")
    /\ \E i \in 1..Len(resp.body) :
          /\ Len(resp.body[i].text) = ClaimedPreviewLen + 1
          /\ Len(resp.body[i].preview) = ClaimedPreviewLen
          /\ resp.body[i].preview = SubSeq(resp.body[i].text, 1, ClaimedPreviewLen)
    /\ \E i \in 1..Len(resp.body) :
          /\ resp.body[i].text = <<>>
          /\ resp.body[i].preview = <<"s">>
    /\ \E i \in 1..Len(resp.body) :
          /\ resp.body[i].text = <<>>
          /\ AbsentOrEmpty(resp.body[i].subject)
          /\ resp.body[i].preview = NoContent

(* C18: generate answers an address whether or not the store is bound and  *)
(* whether or not a domain is configured (some default domain is used when  *)
(* none is), runs nothing on the store and leaves it unchanged: a list      *)
(* right after a generate shows what was ingested for the address, nothing  *)
(* when nothing was.                                                        *)

C18_GenerateStep ==
    HandlerStep("generate")
    => /\ resp'.status = 200
       /\ Len(resp'.generated) > LocalPartLen + 1
       /\ WellFormedAddress(resp'.generated,
             SubSeq(resp'.generated, LocalPartLen + 2, Len(resp'.generated)))
       /\ resp'.storeOps = 0
       /\ db' = db /\ nextId' = nextId /\ env' = env

C18_ListAfterGenerate ==
    (Succeeded(resp, "list") /\ prev.op = "generate")
    => /\ prev.status = 200
       /\ Len(resp.body) = Cardinality(StoredFor(resp.address))
       /\ StoredFor(resp.address) = {} => resp.body = <<>>

C18_GenerateFrame == [][C18_GenerateStep]_vars /\ []C18_ListAfterGenerate

C18_Witness ==
    /\ Succeeded(resp, "list") /\ prev.op = "generate" /\ prev.status = 200
    /\ AbsentOrEmpty(env.EMAIL_DOMAIN)
    /\ SubSeq(resp.address, LocalPartLen + 1, Len(resp.address))
          = <<"@", "7", "7", "7", ".", "x", "y", "z">>
    /\ resp.body = <<>>
    /\ db # <<>>

(* C19: for every message ingested and then listed, the returned from,     *)
(* subject, text and html are the values stored at ingest and the returned  *)
(* content is the original payload preserved at ingest.                     *)

C19_FieldFidelity ==
    Succeeded(resp, "list")
    => \A i \in 1..Len(resp.body) :
          \E row \in Range(db) :
             /\ IdToString(row.id) = resp.body[i].id
             /\ resp.body[i].from = row.from_address
             /\ resp.body[i].subject = row.subject
             /\ resp.body[i].text = row.text_content
             /\ resp.body[i].html =
                   (IF AbsentOrEmpty(row.html_content) THEN <<>> ELSE row.html_content)
             /\ resp.body[i].content = row.raw_email

(* C20: in every reachable state the mailbox address of every stored        *)
(* message is lowercased and trimmed, whatever the case and the surrounding *)
(* whitespace of the ingest request's to.                                   *)

C20_StoredAddressNormalized ==
    /\ \A i \in 1..Len(db) :
          db[i].email_address = Canonical(db[i].email_address)
    /\ Succeeded(resp, "ingest")
          => db[Len(db)].email_address = Canonical(resp.msg.to)

C20_Witness ==
    /\ Succeeded(resp, "ingest")
    /\ resp.msg.to = <<" ", "A", " ">>
    /\ Len(db) = 2
    /\ db[1].email_address = <<"b">>
    /\ db[2].email_address = <<"a">>

(* C24: a successful clear(A) removes exactly the rows stored under        *)
(* lowercase(trim(A)), leaves every other row as it was and reports the     *)
(* number of rows that were stored under that address before the delete.    *)

C24_ClearStep ==
    (HandlerStep("clear") /\ resp'.status = 200)
    => /\ db' = SelectSeq(db, LAMBDA row :
                   row.email_address # Canonical(resp'.address))
       /\ resp'.count =
             Cardinality({i \in 1..Len(db) :
                 db[i].email_address = Canonical(resp'.address)})
       /\ nextId' = nextId

C24_ClearFrame == [][C24_ClearStep]_vars

C24_Witness ==
    /\ Succeeded(resp, "clear")
    /\ resp.address = <<" ", "A", " ">>
    /\ resp.count = 1
    /\ Len(db) = 1
    /\ db[1].email_address = <<"b">>

(* C26: a stored message is immutable and ids are unique: a row that is in  *)
(* the table before and after a step of ingest, list, clear, sweep or       *)
(* generate has every field unchanged, a new row takes an id no row had     *)
(* before, and no two rows of the table share an id.                        *)

C26_ImmutableStep ==
    /\ \A i \in 1..Len(db), j \in 1..Len(db') :
          db'[j].id = db[i].id => db'[j] = db[i]
    /\ \A j \in 1..Len(db') :
          (\A i \in 1..Len(db) : db'[j].id # db[i].id) => db'[j].id >= nextId

C26_UniqueIds ==
    \A i, j \in 1..Len(db) : i # j => db[i].id # db[j].id

C26_Immutable == [][C26_ImmutableStep]_vars /\ []C26_UniqueIds

C26_Witness ==
    /\ Succeeded(resp, "sweep") /\ resp.count = 1
    /\ prev.op = "generate"
    /\ Len(db) = 1
    /\ db[1].id = 2
    /\ db[1].received_at = resp.now - RetentionMs

(* C27: the no_cache parameter changes the caching headers only: a          *)
(* successful list shows the rows stored for the address, in descending     *)
(* receivedAt order, whatever the flag, with a no-store header when the     *)
(* flag is set and max-age=5 when it is not.                                *)

C27_SkipCacheOnlyHeaders ==
    Succeeded(resp, "list")
    => /\ resp.cache = (IF resp.noCache THEN "no-store" ELSE "max-age=5")
       /\ Len(resp.body) = Cardinality(StoredFor(resp.address))
       /\ Range(resp.body) =
             {FormatEmail(row, Canonical(resp.address)) :
                 row \in StoredFor(resp.address)}
       /\ \A i, j \in 1..Len(resp.body) :
             i < j => resp.body[i].receivedAt >= resp.body[j].receivedAt

C27_Witness ==
    /\ Succeeded(resp, "list") /\ resp.noCache /\ resp.cache = "no-store"
    /\ prev.op = "list" /\ prev.status = 200 /\ prev.address = resp.address
    /\ Len(resp.body) = 2

(* C30: a list request leaves the store exactly as it was, for every        *)
(* address, flag and outcome (success, missing address, store unavailable,  *)
(* query failure).                                                          *)

C30_ListStep ==
    HandlerStep("list") => db' = db /\ nextId' = nextId /\ env' = env

C30_ListReadOnly == [][C30_ListStep]_vars

C30_Witness ==
    /\ Succeeded(resp, "list") /\ resp.body # <<>>
    /\ prev.op = "list" /\ prev.status = 500
    /\ db # <<>>

(* C29: rows leave the table only by DELETE /emails/clear, by DELETE        *)
(* /emails/clear-all or by the scheduled trigger: a step for any other      *)
(* method and path (GET or POST /emails/clear, DELETE on another path)      *)
(* keeps every row.                                                         *)

RemovingRoute(r) ==
    \/ r.method = "DELETE" /\ r.path \in {"/emails/clear", "/emails/clear-all"}
    \/ r.method = "scheduled"

C29_RouteStep ==
    (requests' # <<>> /\ clock' = clock /\ ~RemovingRoute(requests'[1]))
    => \A i \in 1..Len(db) : \E j \in 1..Len(db') : db'[j] = db[i]

C29_OnlyDeleteRoutesRemove == [][C29_RouteStep]_vars

C29_Witness ==
    /\ requests # <<>>
    /\ requests[1].method = "GET" /\ requests[1].path = "/emails/clear"
    /\ resp.status = 404
    /\ prev.op = "ingest" /\ prev.status = 200 /\ prev.address = <<"a">>
    /\ db # <<>>

-----------------------------------------------------------------------------
(* Requests in flight.  A handler runs without interruption up to its await *)
(* on the store (Start...), the store runs the statement some time later    *)
(* and the handler answers (Run...).  Between the two, other handlers start *)
(* and run and time passes.  `requests` holds the requests in the order     *)
(* they started.                                                            *)

MaxRequests == 3

Started(r) == requests' = Append(requests, r)

Answer(i, status, count, rowId) ==
    requests' = [requests EXCEPT ![i] =
                    [@ EXCEPT !.pc = "done", !.status = status,
                              !.count = count, !.rowId = rowId,
                              !.storeOps = 1]]

\* The statement of request i is with the store and the store answers it.
Awaited(i, op) ==
    /\ i \in 1..Len(requests)
    /\ requests[i].op = op
    /\ requests[i].pc = "run"
    /\ requests[i].settles

\* handleNewEmail up to the await in saveEmail: the body is parsed and
\* validated, the INSERT is prepared and bound, Date.now() among its values.
StartNewEmail(raw, settles) ==
    LET r == [RequestLine("POST", "/email") EXCEPT !.op = "ingest", !.msg = raw] IN
    /\ Len(requests) < MaxRequests
    /\ UNCHANGED <<env, db, nextId, clock, resp, prev, client>>
    /\ IF ~raw.parsed
       THEN Started([r EXCEPT !.status = 500])
       ELSE IF MissingField(raw)
       THEN Started([r EXCEPT !.status = 400])
       ELSE IF ~IsString(raw.to)
       THEN Started([r EXCEPT !.status = 500])
       ELSE IF ~env.DB
       THEN Started([r EXCEPT !.status = 500])
       ELSE Started([r EXCEPT !.pc = "run", !.now = clock, !.settles = settles])

\* stmt.run() of saveEmail and the rest of handleNewEmail.
RunSaveEmail(i) ==
    /\ Awaited(i, "ingest")
    /\ UNCHANGED <<env, clock, resp, prev, client>>
    /\ \E outcome \in StoreOutcomes :
         IF outcome = "ok"
         THEN /\ db' = Append(db, InsertRow(nextId,
                                    extractEmailData(DeriveText(requests[i].msg)),
                                    requests[i].now))
              /\ nextId' = nextId + 1
              /\ Answer(i, 200, 0, nextId)
         ELSE /\ UNCHANGED <<db, nextId>>
              /\ Answer(i, 500, 0, 0)

\* getEmails up to the await on stmt.all().
StartGetEmails(address, settles) ==
    LET r == [RequestLine("GET", "/emails") EXCEPT !.op = "list", !.address = address] IN
    /\ Len(requests) < MaxRequests
    /\ UNCHANGED <<env, db, nextId, clock, resp, prev, client>>
    /\ IF ~Truthy(address)
       THEN Started([r EXCEPT !.status = 400])
       ELSE IF ~env.DB
       THEN Started([r EXCEPT !.status = 500])
       ELSE Started([r EXCEPT !.pc = "run", !.settles = settles])

\* stmt.all() of getEmails and the rest of the handler.
RunGetEmails(i) ==
    /\ Awaited(i, "list")
    /\ UNCHANGED <<env, db, nextId, clock, resp, prev, client>>
    /\ \E outcome \in StoreOutcomes :
         IF outcome = "ok"
         THEN Answer(i, 200,
                     Len(SelectEmails(db, NormalizeAddress(requests[i].address), "asc")),
                     0)
         ELSE Answer(i, 500, 0, 0)

\* clearEmails up to the await on stmt.run().
StartClearEmails(address, settles) ==
    LET r == [RequestLine("DELETE", "/emails/clear") EXCEPT
                 !.op = "clear", !.address = address] IN
    /\ Len(requests) < MaxRequests
    /\ UNCHANGED <<env, db, nextId, clock, resp, prev, client>>
    /\ IF ~Truthy(address)
       THEN Started([r EXCEPT !.status = 400])
       ELSE IF ~env.DB
       THEN Started([r EXCEPT !.status = 500])
       ELSE Started([r EXCEPT !.pc = "run", !.settles = settles])

\* Mutant: the rows are deleted whatever their address.
RunClearEmails_EveryAddress(i) ==
    /\ Awaited(i, "clear")
    /\ UNCHANGED <<env, nextId, clock, resp, prev, client>>
    /\ \E outcome \in StoreOutcomes :
         IF outcome = "ok"
         THEN /\ db' = <<>>
              /\ Answer(i, 200, Len(db), 0)
         ELSE /\ UNCHANGED db
              /\ Answer(i, 500, 0, 0)

\* stmt.run() of clearEmails and the rest of the handler.
RunClearEmails(i) ==
    /\ Awaited(i, "clear")
    /\ UNCHANGED <<env, nextId, clock, resp, prev, client>>
    /\ \E outcome \in StoreOutcomes :
         IF outcome = "ok"
         THEN /\ db' = DeleteWhereAddress(db, NormalizeAddress(requests[i].address))
              /\ Answer(i, 200, Len(db) - Len(db'), 0)
         ELSE /\ UNCHANGED db
              /\ Answer(i, 500, 0, 0)

\* clearAllEmails up to the await on stmt.run(): Date.now() is read and the
\* cutoff bound.  method is "DELETE" for the route and "scheduled" for the
\* cron trigger.
StartClearAllEmails(method, settles) ==
    LET r == [RequestLine(method, IF method = "DELETE" THEN "/emails/clear-all" ELSE "")
                 EXCEPT !.op = "sweep"] IN
    /\ Len(requests) < MaxRequests
    /\ UNCHANGED <<env, db, nextId, clock, resp, prev, client>>
    /\ IF ~env.DB
       THEN Started([r EXCEPT !.status = 500])
       ELSE Started([r EXCEPT !.pc = "run", !.now = clock, !.settles = settles])

\* stmt.run() of clearAllEmails and the rest of the handler.
RunClearAllEmails(i) ==
    /\ Awaited(i, "sweep")
    /\ UNCHANGED <<env, nextId, clock, resp, prev, client>>
    /\ \E outcome \in StoreOutcomes :
         IF outcome = "ok"
         THEN /\ db' = DeleteWhereOlder(db, CutoffTime(requests[i].now))
              /\ Answer(i, 200, Len(db) - Len(db'), 0)
         ELSE /\ UNCHANGED db
              /\ Answer(i, 500, 0, 0)

-----------------------------------------------------------------------------
(* Specification of the requests in flight: the table holds one message of  *)
(* "a" and one of "b", both received at time 0; up to MaxRequests ingests   *)
(* of RaceMessage, clears of "a" and sweeps (by route or by cron) overlap.  *)

RaceMessage == [BaseMessage EXCEPT !.subject = <<"m">>]

InitialRows ==
    <<InsertRow(1, extractEmailData(BaseMessage), 0),
      InsertRow(2, extractEmailData([BaseMessage EXCEPT !.to = <<"b">>]), 0)>>

InitConcurrent ==
    /\ env = [DB |-> TRUE, EMAIL_DOMAIN |-> Undefined]
    /\ db = InitialRows
    /\ nextId = 3
    /\ clock = 0
    /\ resp = NoResponse
    /\ prev = Summary(NoResponse)
    /\ requests = <<>>
    /\ client = NoClient

IngestStarts == StartNewEmail(RaceMessage, TRUE)

IngestRuns == \E i \in 1..MaxRequests : RunSaveEmail(i)

ClearStarts == StartClearEmails(<<"a">>, TRUE)

ClearRuns == \E i \in 1..MaxRequests : RunClearEmails(i)

SweepStarts == \E method \in {"DELETE", "scheduled"} : StartClearAllEmails(method, TRUE)

SweepRuns == \E i \in 1..MaxRequests : RunClearAllEmails(i)

NextConcurrent ==
    \/ IngestStarts
    \/ IngestRuns
    \/ ClearStarts
    \/ ClearRuns
    \/ SweepStarts
    \/ SweepRuns
    \/ Direct(Tick)

SpecConcurrent == InitConcurrent /\ [][NextConcurrent]_vars

-----------------------------------------------------------------------------
(* Claims about requests in flight *)

\* The requests that started are exactly these operations, all answered 200.
Finished(ops) ==
    /\ Len(requests) = Len(ops)
    /\ \A i \in 1..Len(ops) :
          /\ requests[i].op = ops[i]
          /\ requests[i].pc = "done"
          /\ requests[i].status = 200

(* C21: receivedAt is non-decreasing in insertion order: of two rows of the *)
(* table, the one inserted later has a received_at greater than or equal    *)
(* to the other's, also when ingests overlap.                               *)

C21_ReceivedAtMonotonic ==
    \A i, j \in 1..Len(db) : i < j => db[i].received_at <= db[j].received_at

(* C22: an ingest of m for "a" and a clear of "a" that overlap, both        *)
(* answered 200, leave one of two tables: the message of "b" alone, or the  *)
(* message of "b" and m with every field as sent.  The message "a" held     *)
(* before is gone, the message of "b" is the row it was, and each request   *)
(* ran one statement.                                                       *)

StoredWhole(row, email) ==
    /\ row.email_address = Canonical(email.to)
    /\ row.from_address = email.from
    /\ row.subject = email.subject
    /\ row.text_content = email.text
    /\ row.received_at \in ClockValues

C22_IngestClearRace ==
    (Finished(<<"ingest", "clear">>) \/ Finished(<<"clear", "ingest">>))
    => /\ \/ db = <<InitialRows[2]>>
          \/ /\ Len(db) = 2
             /\ db[1] = InitialRows[2]
             /\ StoredWhole(db[2], RaceMessage)
       /\ \A i \in 1..2 : requests[i].storeOps = 1

\* The ingest started first and m outlives the clear: the DELETE ran after
\* the ingest had started and before its INSERT.
C22_Witness ==
    /\ Finished(<<"ingest", "clear">>)
    /\ Len(db) = 2
    /\ db[2].subject = RaceMessage.subject

\* The clear started first and m is gone: the INSERT ran after the clear had
\* started and before its DELETE.
C22_AbsentAfterOverlap ==
    /\ Finished(<<"clear", "ingest">>)
    /\ db = <<InitialRows[2]>>

(* C23: two sweeps, by cron or by DELETE /emails/clear-all, overlapping     *)
(* with each other and with ingests: a sweep removes only rows older than   *)
(* its own horizon, a removed row is counted by the sweep that removed it   *)
(* and by no other, and once every request has answered no row older than   *)
(* the later sweep's cutoff is left.                                        *)

SweepRan(i) ==
    /\ i \in 1..Len(requests)
    /\ requests[i].op = "sweep"
    /\ requests[i].pc = "run"
    /\ requests'[i].pc = "done"

Removed == {db[k].id : k \in 1..Len(db)} \ {db'[k].id : k \in 1..Len(db')}

C23_SweepStep ==
    /\ \A i \in 1..MaxRequests :
          SweepRan(i) =>
             /\ \A k \in 1..Len(db) :
                   db[k].id \in Removed =>
                      /\ db[k].received_at < requests[i].now - RetentionMs
                      /\ clock - db[k].received_at > RetentionMs
             /\ requests'[i].count = Cardinality(Removed)
    /\ \A i \in 1..Len(requests) :
          (requests[i].op = "sweep" /\ requests[i].pc = "done")
          => requests'[i].count = requests[i].count

SuccessfulSweeps ==
    {i \in 1..Len(requests) :
        requests[i].op = "sweep" /\ requests[i].pc = "done" /\ requests[i].status = 200}

C23_ExpiredGone ==
    (/\ \A i \in 1..Len(requests) : requests[i].pc = "done"
     /\ Cardinality(SuccessfulSweeps) = 2)
    => \A i \in SuccessfulSweeps, k \in 1..Len(db) :
          ~(db[k].received_at < requests[i].now - RetentionMs)

C23_EachSweepWithinItsHorizon == [][C23_SweepStep]_vars

C23_SweepsSafe == [][C23_SweepStep]_vars /\ []C23_ExpiredGone

-----------------------------------------------------------------------------
(* Specification of a store that may never answer: as SpecConcurrent, with  *)
(* lists, without the passing of time, and with each statement either       *)
(* answered by the store (settles) or left without an answer for ever.      *)

IngestAwaits == \E settles \in BOOLEAN : StartNewEmail(RaceMessage, settles)

ListAwaits == \E settles \in BOOLEAN : StartGetEmails(<<"a">>, settles)

ListRuns == \E i \in 1..MaxRequests : RunGetEmails(i)

ClearAwaits == \E settles \in BOOLEAN : StartClearEmails(<<"a">>, settles)

SweepAwaits ==
    \E method \in {"DELETE", "scheduled"}, settles \in BOOLEAN :
        StartClearAllEmails(method, settles)

NextStalls ==
    \/ IngestAwaits
    \/ IngestRuns
    \/ ListAwaits
    \/ ListRuns
    \/ ClearAwaits
    \/ ClearRuns
    \/ SweepAwaits
    \/ SweepRuns

SpecStalls == InitConcurrent /\ [][NextStalls]_vars

(* C25: no request hangs: a request that has not answered yet always has a  *)
(* next step of its handler, the store's answer or else a timeout that      *)
(* answers with a storage error.                                            *)

\* The steps by which the handler of request i goes on after its await.
Resume(i) ==
    \/ RunSaveEmail(i)
    \/ RunGetEmails(i)
    \/ RunClearEmails(i)
    \/ RunClearAllEmails(i)

C25_NoRequestHangs ==
    \A i \in 1..Len(requests) : requests[i].pc = "done" \/ ENABLED Resume(i)

-----------------------------------------------------------------------------
(* The page: its mailbox (refreshEmail, clearEmails) and the polling of it  *)
(* (startAutoCheck, checkNewMails, fetchEmails, stopAutoCheck, copyEmail).  *)
(* A fetchEmails call is a record of client.calls: where it is (sleeping    *)
(* before its first request, awaiting its fetch, sleeping before a retry,   *)
(* returned), its retries, the requests it sent and the address of the      *)
(* last one; client.sent counts the requests sent.  client.intervals and    *)
(* client.timeouts are the timers the browser holds, by their ids, and      *)
(* client.polled tells that startAutoCheck has been called.                 *)

MaxCalls == 3

MaxRefresh == 2

MAX_RETRIES == 3

\* An entry of a list answered by GET /emails: formatEmail's to and id.
Email(address, id) == [to |-> address, id |-> id]

\* What a GET /emails?address=... answers with: a list of the mailbox.
Mailboxes(address) ==
    LET to == NormalizeAddress(address) IN
    {<<>>, <<Email(to, "1")>>}

\* The addresses GET /generate answers with.
GeneratedAddresses == {<<"a">>, <<"b">>}

NoCall ==
    [pc |-> "fetch", retries |-> 0, attempts |-> 0, address |-> <<>>,
     caller |-> "mount", outcome |-> "none"]

\* The smallest id no timer and no handle of the page holds.
FreshTimer(c) ==
    LET used == c.intervals \cup c.timeouts
                \cup {c.autoCheckTimer, c.autoCheckEndTimer}
    IN CHOOSE n \in 1..(Cardinality(used) + 1) :
          /\ n \notin used
          /\ \A k \in 1..(n - 1) : k \in used

\* Mutant: the flag is reset, the timers are left running.
stopAutoCheck_KeepsTimers(c) == [c EXCEPT !.isChecking = FALSE]

stopAutoCheck(c) ==
    [c EXCEPT !.isChecking = FALSE,
              !.intervals = @ \ {c.autoCheckTimer},
              !.autoCheckTimer = NoTimer,
              !.timeouts = @ \ {c.autoCheckEndTimer},
              !.autoCheckEndTimer = NoTimer]

\* The request of a fetchEmails call goes out, for the address of the page
\* at that moment.
SendList(c, i) ==
    [c EXCEPT !.calls[i].pc = "fetch",
              !.calls[i].attempts = @ + 1,
              !.calls[i].address = Trim(c.emailAddress),
              !.sent = @ + 1]

\* fetchEmails up to its first await: the request is sent.
fetchEmails(c, caller) ==
    SendList([c EXCEPT !.calls = Append(@, [NoCall EXCEPT !.caller = caller])],
             Len(c.calls) + 1)

\* caller tells who called: onMounted, startAutoCheck or the interval.
checkNewMails(c, caller) ==
    IF ~Truthy(c.emailAddress) THEN stopAutoCheck(c) ELSE fetchEmails(c, caller)

\* Mutant: the timers of an earlier start are not cleared before new ones
\* are set.
startAutoCheck_KeepsOldTimers(c) ==
    LET checked == checkNewMails([c EXCEPT !.isChecking = TRUE,
                                           !.polled = TRUE], "start")
        interval == FreshTimer(checked)
        timed == [checked EXCEPT !.autoCheckTimer = interval,
                                 !.intervals = @ \cup {interval}]
        timeout == FreshTimer(timed)
    IN [timed EXCEPT !.autoCheckEndTimer = timeout,
                     !.timeouts = @ \cup {timeout}]

startAutoCheck(c) ==
    LET stopped == IF c.isChecking THEN stopAutoCheck(c) ELSE c
        checked == checkNewMails([stopped EXCEPT !.isChecking = TRUE,
                                                 !.polled = TRUE], "start")
        cleared == [checked EXCEPT
                       !.intervals = @ \ {checked.autoCheckTimer},
                       !.timeouts = @ \ {checked.autoCheckEndTimer},
                       !.autoCheckEndTimer = NoTimer]
        interval == FreshTimer(cleared)
        timed == [cleared EXCEPT !.autoCheckTimer = interval,
                                 !.intervals = @ \cup {interval}]
        timeout == FreshTimer(timed)
    IN [timed EXCEPT !.autoCheckEndTimer = timeout,
                     !.timeouts = @ \cup {timeout}]

ClientStep(c) ==
    /\ client' = c
    /\ UNCHANGED <<env, db, nextId, clock, resp, prev, requests>>

\* A function of the page that starts a fetchEmails call can be called.
CanCall == Len(client.calls) < MaxCalls

\* The check button, enabled while isChecking is false.
StartAutoCheck ==
    /\ client.mounted
    /\ ~client.isChecking
    /\ CanCall
    /\ ClientStep(startAutoCheck(client))

\* copyEmail up to its awaits (the clipboard, then 2 s).
copyEmail ==
    /\ client.mounted
    /\ client.copies < MaxCalls
    /\ CanCall
    /\ ClientStep([client EXCEPT !.copies = @ + 1])

\* copyEmail after its 2 s: startAutoCheck(true).
CopyWakes ==
    /\ client.copies > 0
    /\ CanCall
    /\ ClientStep([startAutoCheck(client) EXCEPT !.copies = @ - 1])

\* The 5 s interval fires.
IntervalFires ==
    /\ client.intervals # {}
    /\ Truthy(client.emailAddress) => CanCall
    /\ ClientStep(checkNewMails(client, "interval"))

\* The 2 min timeout fires.
EndTimerFires ==
    \E t \in client.timeouts :
        ClientStep(stopAutoCheck([client EXCEPT !.timeouts = @ \ {t}]))

onUnmounted ==
    /\ client.mounted
    /\ ClientStep([stopAutoCheck(client) EXCEPT !.mounted = FALSE,
                                                !.unmounted = TRUE])

Returned(c, i, outcome) ==
    [c EXCEPT !.calls[i].pc = "done", !.calls[i].outcome = outcome]

\* checkEmailsAfterRefresh after its first fetchEmails: with nothing
\* displayed it sleeps 3 s and calls fetchEmails again.
Continued(c, i) ==
    IF c.calls[i].caller = "refresh" /\ Len(c.emails) = 0
    THEN [c EXCEPT !.calls = Append(@, [NoCall EXCEPT !.pc = "wait",
                                                      !.caller = "recheck"])]
    ELSE c

\* Mutant: a failed attempt is retried whatever the number of retries.
Failed_RetriesForEver(c, i) ==
    [c EXCEPT !.calls[i].retries = @ + 1, !.calls[i].pc = "sleep"]

\* The catch of fetchEmails for an error that is no AbortError.
Failed(c, i) ==
    LET retries == c.calls[i].retries + 1 IN
    IF retries >= MAX_RETRIES
    THEN Continued(Returned([c EXCEPT !.calls[i].retries = retries], i, "failed"), i)
    ELSE [c EXCEPT !.calls[i].retries = retries, !.calls[i].pc = "sleep"]

\* fetchEmails after an array answer: the list is displayed.
Displayed(c, i, data) ==
    Continued(Returned(
        [c EXCEPT !.emails = data,
                  !.selectedEmail = IF Len(data) > 0 /\ @ = NoEmail
                                    THEN data[1] ELSE @],
        i, "ok"), i)

\* The continuation of fetchEmails after its fetch: the list is displayed,
\* or the failure is counted and a retry awaits its 1 s sleep, or an
\* AbortError ends the call.
FetchSettles(i) ==
    /\ i \in 1..Len(client.calls)
    /\ client.calls[i].pc = "fetch"
    /\ \/ \E data \in Mailboxes(client.calls[i].address) :
             ClientStep(Displayed(client, i, data))
       \/ ClientStep(Failed(client, i))
       \/ ClientStep(Continued(Returned(client, i, "aborted"), i))

\* The sleep before a retry ends and the request is sent again.
RetryWakes(i) ==
    /\ i \in 1..Len(client.calls)
    /\ client.calls[i].pc = "sleep"
    /\ ClientStep(SendList(client, i))

\* refreshEmail up to its await on GET /generate.
refreshEmail ==
    /\ client.mounted
    /\ ~client.isCreatingEmail
    /\ Len(client.calls) < MaxRefresh
    /\ ClientStep([client EXCEPT !.isCreatingEmail = TRUE])

\* refreshEmail after GET /generate: the address is replaced and the list
\* emptied, and checkEmailsAfterRefresh starts with its 2 s sleep; or the
\* request failed and nothing changes.
GenerateSettles ==
    /\ client.isCreatingEmail
    /\ \/ \E address \in GeneratedAddresses :
             ClientStep([client EXCEPT
                            !.isCreatingEmail = FALSE,
                            !.emailAddress = address,
                            !.emails = <<>>,
                            !.selectedEmail = NoEmail,
                            !.calls = Append(@, [NoCall EXCEPT !.pc = "wait",
                                                               !.caller = "refresh"])])
       \/ ClientStep([client EXCEPT !.isCreatingEmail = FALSE])

\* A sleep of checkEmailsAfterRefresh ends: fetchEmails(true).
RefreshWakes(i) ==
    /\ i \in 1..Len(client.calls)
    /\ client.calls[i].pc = "wait"
    /\ ClientStep(SendList(client, i))

\* clearEmails of the page up to its await on DELETE /emails/clear.
pageClearEmails ==
    /\ client.mounted
    /\ Len(client.emails) > 0
    /\ client.clear.pc = "idle"
    /\ ClientStep([client EXCEPT
                      !.clear = [pc |-> "delete", backup |-> client.emails,
                                 outcome |-> "none"],
                      !.emails = <<>>,
                      !.selectedEmail = NoEmail])

\* clearEmails of the page after DELETE /emails/clear: done, or the catch
\* puts the backup back.
ClearSettles ==
    /\ client.clear.pc = "delete"
    /\ \/ ClientStep([client EXCEPT !.clear.pc = "idle", !.clear.outcome = "ok"])
       \/ ClientStep([client EXCEPT
                         !.clear.pc = "idle",
                         !.clear.outcome = "failed",
                         !.emails = client.clear.backup,
                         !.selectedEmail =
                             IF Len(client.clear.backup) > 0
                             THEN client.clear.backup[1] ELSE @])

\* onMounted: the saved address is taken and checked, or a new one is asked
\* for.
onMounted ==
    /\ ~client.mounted
    /\ ~client.unmounted
    /\ \/ \E savedEmail \in GeneratedAddresses :
             ClientStep(checkNewMails([client EXCEPT !.mounted = TRUE,
                                                     !.emailAddress = savedEmail],
                                      "mount"))
       \/ ClientStep([client EXCEPT !.mounted = TRUE, !.isCreatingEmail = TRUE])

InitClient ==
    /\ env = [DB |-> TRUE, EMAIL_DOMAIN |-> Undefined]
    /\ db = <<>>
    /\ nextId = 1
    /\ clock = 0
    /\ resp = NoResponse
    /\ prev = Summary(NoResponse)
    /\ requests = <<>>
    /\ client = [NoClient EXCEPT !.mounted = FALSE]

Fetched == \E i \in 1..(2 * MaxCalls) : FetchSettles(i)

Retried == \E i \in 1..(2 * MaxCalls) : RetryWakes(i)

Rechecked == \E i \in 1..(2 * MaxCalls) : RefreshWakes(i)

NextClient ==
    \/ onMounted
    \/ StartAutoCheck
    \/ copyEmail
    \/ CopyWakes
    \/ IntervalFires
    \/ EndTimerFires
    \/ onUnmounted
    \/ Fetched
    \/ Retried

SpecClient == InitClient /\ [][NextClient]_vars

-----------------------------------------------------------------------------
(* Specification of the page's mailbox: the address is replaced by          *)
(* refreshEmail while lists are fetched, without polling.                   *)

NextMailbox ==
    \/ onMounted
    \/ refreshEmail
    \/ GenerateSettles
    \/ Rechecked
    \/ Fetched
    \/ Retried

SpecMailbox == InitClient /\ [][NextMailbox]_vars

-----------------------------------------------------------------------------
(* Specification of the page's inbox: the list is cleared while it is       *)
(* polled.                                                                  *)

NextInbox ==
    \/ onMounted
    \/ StartAutoCheck
    \/ IntervalFires
    \/ EndTimerFires
    \/ Fetched
    \/ Retried
    \/ pageClearEmails
    \/ ClearSettles

SpecInbox == InitClient /\ [][NextInbox]_vars

(* C28: the polling client abandons on cancel: while polling is stopped     *)
(* (stopAutoCheck was called, by the user, the end timer or on unmount, and *)
(* polling was not started again), a fetchEmails call still in progress     *)
(* sends no retry and does not replace the displayed list.                  *)

\* polled: startAutoCheck has been called on the page.
PollingStopped(c) == c.polled /\ ~c.isChecking /\ c.autoCheckTimer = NoTimer

C28_StoppedStep ==
    (PollingStopped(client) /\ PollingStopped(client'))
    => /\ client'.sent = client.sent
       /\ client'.emails = client.emails

C28_AbandonOnCancel == [][C28_StoppedStep]_vars

-----------------------------------------------------------------------------
(* Claims about the page *)

(* C31: the messages displayed belong to the current mailbox: every entry   *)
(* of emails was answered by a list request for the page's current          *)
(* emailAddress, also when refreshEmail replaces the address while a        *)
(* fetchEmails request for the previous one is in flight.                   *)

C31_DisplayedBelongToMailbox ==
    \A k \in 1..Len(client.emails) :
        client.emails[k].to = Canonical(client.emailAddress)

(* C32: the polling state of the page is consistent: whenever               *)
(* startAutoCheck or stopAutoCheck has returned, the 5 s interval timer is  *)
(* live exactly if isChecking is true, also when startAutoCheck is called   *)
(* with an empty emailAddress.                                              *)

C32_TimerIffChecking == (client.intervals # {}) <=> client.isChecking

(* C33: polling ends: while the page polls, the 2 min timeout set by the    *)
(* last startAutoCheck is pending, and it is the only one; when             *)
(* stopAutoCheck has run, isChecking is false, both handles are null and no *)
(* interval is left to call checkNewMails.                                  *)

Polling(c) == c.isChecking \/ c.intervals # {}

C33_DeadlinePending ==
    /\ Polling(client) =>
          /\ client.autoCheckEndTimer \in client.timeouts
          /\ ENABLED EndTimerFires
    /\ Cardinality(client.timeouts) <= 1

C33_StopStep ==
    (client.timeouts # {} /\ client'.timeouts = {})
    => /\ ~client'.isChecking
       /\ client'.autoCheckTimer = NoTimer
       /\ client'.autoCheckEndTimer = NoTimer
       /\ client'.intervals = {}

C33_PollingEnds == []C33_DeadlinePending /\ [][C33_StopStep]_vars

\* Polling of a mailbox was started and the timeout has ended it.
C33_Witness ==
    /\ client.mounted
    /\ client.polled
    /\ Truthy(client.emailAddress)
    /\ client.copies = 0
    /\ ~client.isChecking
    /\ client.timeouts = {}
    /\ \E i \in 1..Len(client.calls) : client.calls[i].caller = "interval"

(* C36: no timer leaks: every interval and every timeout the browser holds  *)
(* for the page is the one recorded in autoCheckTimer or in                 *)
(* autoCheckEndTimer, so that at most one of each is live, whatever the     *)
(* calls of startAutoCheck, stopAutoCheck, copyEmail and checkNewMails.     *)

C36_NoLeakedTimer ==
    /\ client.intervals \subseteq {client.autoCheckTimer}
    /\ client.timeouts \subseteq {client.autoCheckEndTimer}
    /\ NoTimer \notin client.intervals \cup client.timeouts

\* startAutoCheck was called twice for a mailbox, the second time by
\* copyEmail while the page was polling, and the page polls.
C36_Witness ==
    /\ client.isChecking
    /\ client.intervals # {}
    /\ client.timeouts # {}
    /\ Len(client.calls) >= 3
    /\ client.calls[2].caller = "start"
    /\ client.calls[3].caller = "start"
    /\ client.copies = 0

(* C34: the page's clear rolls back on failure: when DELETE /emails/clear   *)
(* has failed, the list displayed once clearEmails returns is the list      *)
(* displayed just before it was called, and when it has succeeded the list  *)
(* is empty and selectedEmail is null, also when a fetchEmails call         *)
(* completes while the DELETE is in flight.                                 *)

ClearReturned == client.clear.pc = "delete" /\ client'.clear.pc = "idle"

C34_ClearStep ==
    ClearReturned =>
       IF client'.clear.outcome = "ok"
       THEN client'.emails = <<>> /\ client'.selectedEmail = NoEmail
       ELSE client'.emails = client.clear.backup

C34_ClearRollsBack == [][C34_ClearStep]_vars

(* C35: fetchEmails is bounded and total: a call sends at most 3 list       *)
(* requests, sends one again only after the 1 s sleep that follows a failed *)
(* attempt, does nothing more once it has returned (after the first array   *)
(* answer, after an abort error, after the last failure), always has a next *)
(* step until then, returns without an exception, and leaves emails as they *)
(* were when it returns without an array answer.                            *)

ClaimedAttempts == 3

CallStep(i) ==
    LET call == client.calls[i]
        after == client'.calls[i]
    IN /\ after.attempts # call.attempts =>
             /\ call.pc = "sleep"
             /\ after.attempts = call.attempts + 1
       /\ call.pc = "done" => after = call
       /\ (call.pc # "done" /\ after.pc = "done" /\ after.outcome # "ok")
          => client'.emails = client.emails

C35_CallSteps ==
    \A i \in 1..Len(client.calls) : Len(client'.calls) >= i /\ CallStep(i)

C35_CallBounded ==
    \A i \in 1..Len(client.calls) :
        /\ client.calls[i].attempts <= ClaimedAttempts
        /\ IF client.calls[i].pc = "done"
           THEN client.calls[i].outcome \in {"ok", "failed", "aborted"}
           ELSE ENABLED (FetchSettles(i) \/ RetryWakes(i))

C35_FetchBoundedTotal == []C35_CallBounded /\ [][C35_CallSteps]_vars

\* One call has returned after three failed requests, with the list of an
\* earlier call still displayed, and another has returned after an abort.
C35_Witness ==
    /\ \E i \in 1..Len(client.calls) :
          /\ client.calls[i].outcome = "failed"
          /\ client.calls[i].attempts = ClaimedAttempts
    /\ \E i \in 1..Len(client.calls) : client.calls[i].outcome = "aborted"
    /\ Len(client.emails) > 0

=============================================================================
